---- MODULE Spec2Model ----
(***************************************************************************)
(* A model of MeshLoader (mesh_loader.py), the render session manager of   *)
(* the mesh viewer: one loader object holding the device, the camera       *)
(* model, the rasterization settings, the light location, the Phong        *)
(* renderer, the three camera parameters and the loaded face mesh.         *)
(*                                                                         *)
(* Python values: None is the record None; a number x held in an attribute *)
(* that may also be None is Num(x), and a list held in one is List(t); a   *)
(* path is a tuple of one-character strings and an array a tuple of rows.  *)
(* Floats are modelled by integers (3.0 is 3).  Vertex positions are       *)
(* abstracted to the row index.                                            *)
(*                                                                         *)
(* The rendering library (pytorch3d, torch, numpy) is not part of the      *)
(* repository.  Its calls are modelled by their documented results: an     *)
(* object built from its arguments, or an exception.  What the file        *)
(* system holds at a path and whether the rasterizer succeeds on valid     *)
(* arguments are inputs of the action that makes the call.                 *)
(***************************************************************************)
EXTENDS Integers, Sequences, FiniteSets, TLC

VARIABLES
    loader,      \* the MeshLoader object (None before construction)
    call,        \* the last completed call: its name, arguments, outcome
    lastRender,  \* history: arguments of the caller's most recent render
    lastLight,   \* history: argument of the caller's most recent change_light
    nobj         \* number of renderer objects constructed so far

vars == <<loader, call, lastRender, lastLight, nobj>>

----------------------------------------------------------------------------
(* Bounds of the model *)

MaxVerts == 2        \* vertices in a mesh file, rows in a color file
MaxRenderers == 3    \* renderer objects constructed in one run

(* Program constants *)

DefaultDistance == 3
DefaultElevation == 1
DefaultAzimuth == 0
ImageSize == 512
FacesPerPixel == 2
Float32Exact == 16777216   \* 2^24: every integer up to it is a float32

----------------------------------------------------------------------------
(* Python values *)

None == [py |-> "None"]
Num(x) == [py |-> "num", val |-> x]
List(items) == [py |-> "list", items |-> items]

DefaultLight == List(<<0, 3, 5>>)

Devices == {"cuda:0"}
LightLocations == {DefaultLight, List(<<1, 0, 2>>)}
Distances == {Num(DefaultDistance), Num(4)}
Elevations == {Num(DefaultElevation), Num(0)}
Azimuths == {Num(DefaultAzimuth), Num(1)}

Paths ==
    { <<"a", ".", "o", "b", "j">>, <<"a", ".", "p", "l", "y">>,
      <<"a", ".", "O", "B", "J">>, <<"a", ".", "t", "x", "t">>,
      <<"a", ".", "n", "p", "y">>, <<"l", "y">> }

\* a color file of k rows: row i holds the three channel values
\* 3i, 3i + 1, 3i + 2, so that no two rows and no two channels agree
ColorRows(k) == [i \in 1..k |-> <<3 * i, 3 * i + 1, 3 * i + 2>>]

(* What a mesh parser finds at a path: no file, a file it rejects, or a    *)
(* mesh of n vertices.                                                     *)
MeshFiles == {[kind |-> "missing"], [kind |-> "malformed"]}
             \cup {[kind |-> "mesh", nverts |-> n] : n \in 1..MaxVerts}
(* What sits at the sibling color path: nothing, or an array of rows.      *)
NpyFiles == {[exists |-> FALSE]}
            \cup {[exists |-> TRUE, colors |-> ColorRows(k)] : k \in 1..MaxVerts}

----------------------------------------------------------------------------
(* Python slicing on paths *)

Max(a, b) == IF a > b THEN a ELSE b

\* s[-3:]
Last3(s) == SubSeq(s, Max(1, Len(s) - 2), Len(s))
\* s[:-3]
DropLast3(s) == SubSeq(s, 1, Max(0, Len(s) - 3))

\* obj_filename[:-3] + 'npy'
SiblingNpy(obj_filename) == DropLast3(obj_filename) \o <<"n", "p", "y">>

----------------------------------------------------------------------------
(* Outcomes of a call: the object after it, and a return value or an       *)
(* exception.  lookat is the viewpoint the call asked the renderer for     *)
(* (None when it rendered nothing).                                        *)

Return(self, value, lookat) ==
    [self |-> self, status |-> "ok", value |-> value, lookat |-> lookat]
Raise(self, exc, lookat) ==
    [self |-> self, status |-> "error",
     value |-> [py |-> "exception", type |-> exc], lookat |-> lookat]

----------------------------------------------------------------------------
(* Library constructors: each builds an object out of its arguments *)

FoVPerspectiveCameras(device) ==
    [py |-> "FoVPerspectiveCameras", device |-> device]

RasterizationSettings(image_size, blur_radius, faces_per_pixel) ==
    [image_size |-> image_size, blur_radius |-> blur_radius,
     faces_per_pixel |-> faces_per_pixel]

PointLights(device, location) ==
    [device |-> device, location |-> location]

MeshRasterizer(cameras, raster_settings) ==
    [cameras |-> cameras, raster_settings |-> raster_settings]

HardPhongShader(device, cameras, lights) ==
    [device |-> device, cameras |-> cameras, lights |-> lights]

\* oid is the identity of the new renderer object
MeshRenderer(oid, rasterizer, shader) ==
    [py |-> "MeshRenderer", id |-> oid, rasterizer |-> rasterizer,
     shader |-> shader]

TexturesVertex(verts_features) == [verts_features |-> verts_features]

\* Meshes of a one-element batch; verts and faces are the lists passed in
Meshes(verts, faces, textures) ==
    [py |-> "Meshes", verts |-> verts, faces |-> faces, textures |-> textures]

----------------------------------------------------------------------------
(* MeshLoader *)

\* set_phong_renderer(self, light_location)
set_phong_renderer_unstored(self, light_location, oid) ==
    [self EXCEPT !.phong_renderer =
        MeshRenderer(oid,
                     MeshRasterizer(self.cameras, self.raster_settings),
                     HardPhongShader(self.device, self.cameras,
                         PointLights(self.device, <<light_location>>)))]
set_phong_renderer_default_light(self, light_location, oid) ==
    [self EXCEPT !.light_location = light_location,
                 !.phong_renderer =
        MeshRenderer(oid,
                     MeshRasterizer(self.cameras, self.raster_settings),
                     HardPhongShader(self.device, self.cameras,
                         PointLights(self.device, <<List(<<0, 3, 5>>)>>)))]
set_phong_renderer(self, light_location, oid) ==
    LET s1 == [self EXCEPT !.light_location = light_location]
        lights == PointLights(s1.device, <<light_location>>)
    IN  [s1 EXCEPT !.phong_renderer =
            MeshRenderer(oid,
                         MeshRasterizer(s1.cameras, s1.raster_settings),
                         HardPhongShader(s1.device, s1.cameras, lights))]

\* initialize_renderer(self)
initialize_renderer(self, oid) ==
    LET s1 == [self EXCEPT !.cameras = FoVPerspectiveCameras(self.device)]
        s2 == [s1 EXCEPT !.raster_settings =
                  RasterizationSettings(ImageSize, 0, FacesPerPixel)]
    IN  set_phong_renderer(s2, DefaultLight, oid)

\* __init__(self, device): cudaOk says whether torch can select the device
MeshLoader_default_view(device, cudaOk, oid) ==
    IF ~cudaOk
    THEN Raise(None, "RuntimeError", None)
    ELSE Return(initialize_renderer(
                    [device |-> device,
                     cameras |-> None,
                     raster_settings |-> None,
                     light_location |-> None,
                     phong_renderer |-> None,
                     distance |-> Num(3),
                     elevation |-> Num(1),
                     azimuth |-> Num(0),
                     face_mesh |-> None], oid),
                None, None)
MeshLoader(device, cudaOk, oid) ==
    IF ~cudaOk
    THEN Raise(None, "RuntimeError", None)
    ELSE Return(initialize_renderer(
                    [device |-> device,
                     cameras |-> None,
                     raster_settings |-> None,
                     light_location |-> None,
                     phong_renderer |-> None,
                     distance |-> None,
                     elevation |-> None,
                     azimuth |-> None,
                     face_mesh |-> None], oid),
                None, None)

----------------------------------------------------------------------------
(* Mesh and color files *)

\* n vertex positions, one row of three coordinates each
Vertices(n) == [i \in 1..n |-> <<i, 0, 0>>]
\* the triangles over n vertices (vertex indices count from 0)
Triangles(n) == [i \in 1..Max(0, n - 2) |-> <<i - 1, i, i + 1>>]

\* load_obj(f): (verts, faces, aux), or an exception
load_obj(meshFile) ==
    IF meshFile.kind = "mesh"
    THEN [status |-> "ok", verts |-> Vertices(meshFile.nverts),
          faces |-> [verts_idx |-> Triangles(meshFile.nverts)],
          aux |-> None]
    ELSE [status |-> "error"]

\* load_ply(f): (verts, faces), or an exception
load_ply(meshFile) ==
    IF meshFile.kind = "mesh"
    THEN [status |-> "ok", verts |-> Vertices(meshFile.nverts),
          faces |-> Triangles(meshFile.nverts)]
    ELSE [status |-> "error"]

\* the branch of lines 72-77 taken for an extension; "unbound" leaves
\* verts, faces and verts_idx unassigned
format_else(extension) ==
    IF extension = <<"o", "b", "j">> THEN "obj" ELSE "ply"
format_of(extension) ==
    IF extension = <<"o", "b", "j">> THEN "obj"
    ELSE IF extension = <<"p", "l", "y">> THEN "ply"
    ELSE "unbound"

\* the index list of colors[..., [2,1,0]]
ChannelOrderKept == <<0, 1, 2>>
ChannelOrder == <<2, 1, 0>>

\* a[..., idx]: every row of a, its channels picked in the order of idx
index_channels(a, idx) ==
    [i \in DOMAIN a |-> [j \in DOMAIN idx |-> a[i][idx[j] + 1]]]

\* conversion of one integer to float32: exact up to 2^24 in magnitude;
\* from there to 2^25 the floats are the even integers, and an odd one
\* rounds to its neighbour with an even mantissa (a multiple of 4)
RoundToEven(x) ==
    IF x % 2 = 0 THEN x ELSE IF (x + 1) % 4 = 0 THEN x + 1 ELSE x - 1
ToFloat32(x) ==
    IF -Float32Exact <= x /\ x <= Float32Exact THEN x
    ELSE IF x > 0 THEN RoundToEven(x) ELSE -RoundToEven(-x)

\* torch.FloatTensor(a)
FloatTensor(a) == [i \in DOMAIN a |-> [j \in DOMAIN a[i] |-> ToFloat32(a[i][j])]]

\* torch.ones_like(verts)
zeros_like(t) == [i \in DOMAIN t |-> [j \in DOMAIN t[i] |-> 0]]
ones_like(t) == [i \in DOMAIN t |-> [j \in DOMAIN t[i] |-> 1]]

\* t.unsqueeze(0), t[None]: a batch of one
unsqueeze0(t) == <<t>>

----------------------------------------------------------------------------
\* load(self, obj_filename).  meshFile is what the parser finds at
\* obj_filename, npyFile what sits at the sibling color path, and
\* shapeChecked whether this build of Meshes compares the number of
\* texture rows with the number of vertices.
load(self, obj_filename, meshFile, npyFile, shapeChecked) ==
    LET extension == Last3(obj_filename)
        format == format_of(extension)
        parsed == IF format = "obj" THEN load_obj(meshFile)
                  ELSE load_ply(meshFile)
        verts == parsed.verts
        verts_idx == IF format = "obj" THEN parsed.faces.verts_idx
                     ELSE parsed.faces
        verts_rgb == IF npyFile.exists
                     THEN unsqueeze0(FloatTensor(
                              index_channels(npyFile.colors, ChannelOrder)))
                     ELSE unsqueeze0(ones_like(verts))
    IN  IF format /= "unbound" /\ parsed.status = "error"
        THEN Raise(self, "IOError", None)                \* line 73 or 76
        ELSE IF format = "unbound"
        THEN Raise(self, "UnboundLocalError", None)      \* line 86 or 92
        ELSE IF shapeChecked /\ Len(verts_rgb[1]) /= Len(verts)
        THEN Raise(self, "ValueError", None)             \* line 91
        ELSE Return([self EXCEPT !.face_mesh =
                        Meshes(<<verts>>, <<verts_idx>>,
                               TexturesVertex(verts_rgb))],
                    None, None)

\* set_camera_location(self, distance, elevation, azimuth)
set_camera_location_swapped(self, distance, elevation, azimuth) ==
    [self EXCEPT !.distance = distance, !.elevation = azimuth,
                 !.azimuth = elevation]
set_camera_location(self, distance, elevation, azimuth) ==
    [self EXCEPT !.distance = distance, !.elevation = elevation,
                 !.azimuth = azimuth]

\* look_at_view_transform(dist, elev, azim): (R, T), kept as the spherical
\* coordinates they are computed from; None is no number
look_at_view_transform(dist, elev, azim) ==
    IF None \in {dist, elev, azim}
    THEN [status |-> "error"]
    ELSE [status |-> "ok", R |-> <<elev.val, azim.val>>,
          T |-> <<dist.val>>]

\* renderer(meshes_world=mesh, R=R, T=T), then .cpu().numpy().squeeze():
\* the image is a function of the mesh, the renderer and the viewpoint
render_image(renderer, mesh, RT) ==
    [shape |-> <<renderer.rasterizer.raster_settings.image_size,
                 renderer.rasterizer.raster_settings.image_size, 4>>,
     meshes_world |-> mesh,
     lights |-> renderer.shader.lights,
     R |-> RT.R, T |-> RT.T]

\* render(self, distance, elevation, azimuth).  rasterOk says whether the
\* renderer succeeds on a mesh and a viewpoint that are both present.
render_rebuilding(self, distance, elevation, azimuth, rasterOk) ==
    LET s1 == [set_camera_location(self, distance, elevation, azimuth)
                  EXCEPT !.phong_renderer.id = @ + 1]
        lookat == <<distance, elevation, azimuth>>
        RT == look_at_view_transform(distance, elevation, azimuth)
    IN  IF RT.status = "error"
        THEN Raise(s1, "TypeError", lookat)
        ELSE IF s1.face_mesh = None
        THEN Raise(s1, "AttributeError", lookat)
        ELSE IF ~rasterOk
        THEN Raise(s1, "RuntimeError", lookat)
        ELSE Return(s1, render_image(s1.phong_renderer, s1.face_mesh, RT),
                    lookat)
render_checked_first(self, distance, elevation, azimuth, rasterOk) ==
    LET s1 == set_camera_location(self, distance, elevation, azimuth)
        lookat == <<distance, elevation, azimuth>>
        RT == look_at_view_transform(distance, elevation, azimuth)
    IN  IF RT.status = "error"
        THEN Raise(self, "TypeError", lookat)
        ELSE IF self.face_mesh = None
        THEN Raise(self, "AttributeError", lookat)
        ELSE IF ~rasterOk
        THEN Raise(s1, "RuntimeError", lookat)
        ELSE Return(s1, render_image(s1.phong_renderer, s1.face_mesh, RT),
                    lookat)
render(self, distance, elevation, azimuth, rasterOk) ==
    LET s1 == set_camera_location(self, distance, elevation, azimuth)
        lookat == <<distance, elevation, azimuth>>
        RT == look_at_view_transform(distance, elevation, azimuth)
    IN  IF RT.status = "error"
        THEN Raise(s1, "TypeError", lookat)              \* line 108
        ELSE IF s1.face_mesh = None
        THEN Raise(s1, "AttributeError", lookat)         \* line 111
        ELSE IF ~rasterOk
        THEN Raise(s1, "RuntimeError", lookat)           \* line 111
        ELSE Return(s1, render_image(s1.phong_renderer, s1.face_mesh, RT),
                    lookat)

\* change_light(self, light_location)
change_light_default_view(self, light_location, rasterOk, oid) ==
    render(set_phong_renderer(self, light_location, oid),
           Num(DefaultDistance), Num(DefaultElevation), Num(DefaultAzimuth),
           rasterOk)
change_light(self, light_location, rasterOk, oid) ==
    LET s1 == set_phong_renderer(self, light_location, oid)
    IN  render(s1, s1.distance, s1.elevation, s1.azimuth, rasterOk)

\* get_camera_params(self)
get_camera_params(self) == <<self.distance, self.elevation, self.azimuth>>

\* get_light_location(self)
get_light_location(self) == self.light_location

----------------------------------------------------------------------------
(* The session: one loader object and its caller.  call records the last   *)
(* completed call; for load, env is what the call found in the file        *)
(* system: whether the sibling color file exists and, when the load went   *)
(* through, the two files it read.                                         *)

Called(op, args, env, out) ==
    [op |-> op, args |-> args, env |-> env, status |-> out.status,
     value |-> out.value, lookat |-> out.lookat]

Init ==
    /\ loader = None
    /\ call = [op |-> "none", args |-> <<>>, env |-> None, status |-> "ok",
               value |-> None, lookat |-> None]
    /\ lastRender = <<None, None, None>>
    /\ lastLight = None
    /\ nobj = 0

\* meshLoader = MeshLoader(device)
Construct ==
    /\ loader = None
    /\ \E device \in Devices, cudaOk \in BOOLEAN :
         LET out == MeshLoader(device, cudaOk, nobj + 1)
         IN  /\ loader' = out.self
             /\ call' = Called("__init__", <<device>>, None, out)
             /\ nobj' = IF cudaOk THEN nobj + 1 ELSE nobj
    /\ UNCHANGED <<lastRender, lastLight>>

\* meshLoader.load(obj_filename)
Load ==
    /\ loader /= None
    /\ \E obj_filename \in Paths, meshFile \in MeshFiles,
          npyFile \in NpyFiles, shapeChecked \in BOOLEAN :
         LET out == load(loader, obj_filename, meshFile, npyFile,
                         shapeChecked)
         IN  /\ loader' = out.self
             /\ call' = Called("load", <<obj_filename>>,
                               IF out.status = "ok"
                               THEN [sibling |-> SiblingNpy(obj_filename),
                                     exists |-> npyFile.exists,
                                     npy |-> npyFile, mesh |-> meshFile]
                               ELSE [sibling |-> SiblingNpy(obj_filename),
                                     exists |-> npyFile.exists], out)
    /\ UNCHANGED <<lastRender, lastLight, nobj>>

\* meshLoader.render(distance, elevation, azimuth)
Render ==
    /\ loader /= None
    /\ \E distance \in Distances, elevation \in Elevations,
          azimuth \in Azimuths,
          rasterOk \in BOOLEAN :
         LET out == render(loader, distance, elevation, azimuth, rasterOk)
         IN  /\ loader' = out.self
             /\ call' = Called("render", <<distance, elevation, azimuth>>,
                               None, out)
             /\ lastRender' = <<distance, elevation, azimuth>>
    /\ UNCHANGED <<lastLight, nobj>>

\* meshLoader.change_light(light_location)
ChangeLight ==
    /\ loader /= None
    /\ nobj < MaxRenderers
    /\ \E light_location \in LightLocations, rasterOk \in BOOLEAN :
         LET out == change_light(loader, light_location, rasterOk, nobj + 1)
         IN  /\ loader' = out.self
             /\ call' = Called("change_light", <<light_location>>, None, out)
             /\ lastLight' = light_location
    /\ nobj' = nobj + 1
    /\ UNCHANGED lastRender

\* meshLoader.get_camera_params()
GetCameraParams ==
    /\ loader /= None
    /\ call' = Called("get_camera_params", <<>>, None,
                      Return(loader, get_camera_params(loader), None))
    /\ UNCHANGED <<loader, lastRender, lastLight, nobj>>

\* meshLoader.get_light_location()
GetLightLocation ==
    /\ loader /= None
    /\ call' = Called("get_light_location", <<>>, None,
                      Return(loader, get_light_location(loader), None))
    /\ UNCHANGED <<loader, lastRender, lastLight, nobj>>

Next ==
    \/ Construct
    \/ Load
    \/ Render
    \/ ChangeLight
    \/ GetCameraParams
    \/ GetLightLocation

Spec == Init /\ [][Next]_vars

----------------------------------------------------------------------------
(* Properties *)

Unset == <<None, None, None>>
Supported == {<<"o", "b", "j">>, <<"p", "l", "y">>}
Installed == loader.face_mesh.textures.verts_features[1]
RendererLight(r) == r.shader.lights.location[1]

\* C1: right after change_light(L) the light location read back is L, and
\* whatever load, render or getter calls follow, get_light_location()
\* returns the argument of the most recent change_light.
C1_LightRoundTrip ==
    /\ call.op = "change_light" => get_light_location(loader) = call.args[1]
    /\ (call.op = "get_light_location" /\ lastLight /= None)
           => call.value = lastLight

C1_Witness ==
    /\ call.op = "get_light_location"
    /\ lastLight = List(<<1, 0, 2>>)
    /\ call.value = List(<<1, 0, 2>>)
    /\ lastRender /= Unset
    /\ loader.face_mesh /= None

\* C2: right after render(d, e, a) the camera parameters read back are
\* (d, e, a), and once render has been called get_camera_params() returns
\* the arguments of the most recent render call.
C2_CameraRoundTrip ==
    /\ call.op = "render" => get_camera_params(loader) = call.args
    /\ (call.op = "get_camera_params" /\ lastRender /= Unset)
           => call.value = lastRender

C2_Witness ==
    /\ call.op = "get_camera_params"
    /\ call.value = <<Num(4), Num(0), Num(1)>>
    /\ lastRender = <<Num(4), Num(0), Num(1)>>
    /\ lastLight /= None

\* C3: a change_light that follows a render asks the renderer for the
\* viewpoint of that render, and leaves the three stored camera parameters
\* as they were.
C3_LightKeepsCamera ==
    [][(call'.op = "change_light" /\ lastRender /= Unset)
          => /\ call'.lookat = lastRender
             /\ get_camera_params(loader) = lastRender
             /\ get_camera_params(loader') = get_camera_params(loader)]_vars

C3_Witness ==
    /\ call.op = "change_light"
    /\ call.status = "ok"
    /\ lastRender = <<Num(4), Num(0), Num(1)>>
    /\ call.lookat = lastRender
    /\ call.value.T = <<4>>

\* C4: a render call leaves the mesh, the light location, the renderer,
\* the camera model, the rasterization settings and the device as they
\* were; only distance, elevation and azimuth may differ.
C4_RenderFrame ==
    [][call'.op = "render"
          => /\ loader'.face_mesh = loader.face_mesh
             /\ loader'.light_location = loader.light_location
             /\ loader'.phong_renderer = loader.phong_renderer
             /\ loader'.cameras = loader.cameras
             /\ loader'.raster_settings = loader.raster_settings
             /\ loader'.device = loader.device]_vars

C4_Witness ==
    /\ call.op = "render"
    /\ call.status = "ok"
    /\ call.args /= <<Num(3), Num(1), Num(0)>>
    /\ lastLight /= None

\* C5: a load of a path whose last three characters are neither obj nor
\* ply ends in an error, with or without a sibling color file, and the
\* mesh the loader held (or None) stays.
C5_UnsupportedExtension ==
    [][(call'.op = "load" /\ Last3(call'.args[1]) \notin Supported)
          => /\ call'.status = "error"
             /\ loader'.face_mesh = loader.face_mesh]_vars

C5_Witness ==
    /\ call.op = "load"
    /\ call.args[1] = <<"a", ".", "O", "B", "J">>
    /\ call.env.exists
    /\ call.status = "error"
    /\ loader.face_mesh /= None

\* C6: after a successful load with no sibling color file the mesh has one
\* color per vertex of the file, each (1, 1, 1); and a load without a color
\* file fails only where the parser or the extension test fails.
C6_DefaultWhite ==
    (call.op = "load" /\ ~call.env.exists)
        => IF call.status = "ok"
           THEN /\ Len(loader.face_mesh.verts[1]) = call.env.mesh.nverts
                /\ Len(Installed) = call.env.mesh.nverts
                /\ \A i \in 1..Len(Installed) : Installed[i] = <<1, 1, 1>>
           ELSE call.value.type \in {"IOError", "UnboundLocalError"}

C6_Witness ==
    /\ call.op = "load"
    /\ call.status = "ok"
    /\ ~call.env.exists
    /\ Len(Installed) >= 2

\* C7: after a successful load with a sibling color file the color
\* installed at index i is row i of the file with its channels reversed,
\* and reordering the installed colors once more gives the file's rows.
C7_ChannelsReversed ==
    (call.op = "load" /\ call.status = "ok" /\ call.env.exists)
        => LET file == call.env.npy.colors
           IN  /\ Len(Installed) = Len(file)
               /\ \A i \in 1..Len(file) :
                     Installed[i] = <<file[i][3], file[i][2], file[i][1]>>
               /\ index_channels(Installed, ChannelOrder) = file

C7_Witness ==
    /\ call.op = "load"
    /\ call.status = "ok"
    /\ call.env.exists
    /\ Len(call.env.npy.colors) >= 2
    /\ Installed[2] = <<8, 7, 6>>

\* C8: as long as the caller has never called render, the stored camera
\* parameters are (None, None, None) and get_camera_params() returns them,
\* also after change_light has re-rendered.
C8_UnsetUntilRender ==
    (loader /= None /\ lastRender = Unset)
        => /\ get_camera_params(loader) = Unset
           /\ call.op = "get_camera_params" => call.value = Unset

C8_Witness ==
    /\ call.op = "get_camera_params"
    /\ call.value = Unset
    /\ lastLight /= None
    /\ loader.face_mesh /= None

\* C9: only construction and change_light install a renderer, each
\* change_light installs a new one, construction places the light at the
\* default location, and the stored light location is always the location
\* of the point light of the installed renderer.
C9_RendererFollowsLight ==
    [][/\ loader /= None
          => /\ loader'.phong_renderer /= loader.phong_renderer
                    => call'.op = "change_light"
             /\ call'.op = "change_light"
                    => loader'.phong_renderer.id /= loader.phong_renderer.id
       /\ (loader = None /\ loader' /= None)
          => /\ call'.op = "__init__"
             /\ loader'.light_location = DefaultLight
       /\ loader' /= None
          => loader'.light_location = RendererLight(loader'.phong_renderer)
      ]_vars

C9_Witness ==
    /\ call.op = "change_light"
    /\ loader.phong_renderer.id = 3
    /\ loader.light_location = DefaultLight
    /\ lastRender /= Unset

\* C10: a render that fails has stored its arguments, a render without a
\* mesh fails, and a change_light that fails has stored its light location
\* and installed its new renderer.
C10_NoRollback ==
    /\ (call.op = "render" /\ call.status = "error")
           => get_camera_params(loader) = call.args
    /\ (call.op = "render" /\ loader.face_mesh = None)
           => call.status = "error"
    /\ (call.op = "change_light" /\ call.status = "error")
           => /\ loader.light_location = call.args[1]
              /\ loader.phong_renderer.id = nobj
              /\ RendererLight(loader.phong_renderer) = call.args[1]

C10_Witness ==
    /\ call.op = "render"
    /\ call.status = "error"
    /\ loader.face_mesh = None
    /\ call.args = <<Num(4), Num(0), Num(1)>>
    /\ lastLight /= None

====
